---- MODULE Spec2Model ----
(***************************************************************************)
(* The recommendation API: the context aggregation and caching layer       *)
(* (api/app/services/context_aggregator.py), the deterministic and the     *)
(* generative backend (data/mock_events.py, services/llm.py,               *)
(* services/activity_suggestion_generator.py) and the two endpoints        *)
(* (main.py).                                                              *)
(*                                                                         *)
(* The specifications share the state:                                     *)
(*   SpecCache       - callers racing on get_todays_weather_forecast and   *)
(*                     _get_festival_events_cached (the two cache maps,    *)
(*                     their locks, the monotonic clock);                  *)
(*   SpecGather      - gather_context: the scraper check, the three tasks  *)
(*                     submitted to the ThreadPoolExecutor, the join and   *)
(*                     the assembly of the bundle;                         *)
(*   SpecPreferences - gather_context over the preference texts;           *)
(*   SpecMock        - generate_suggestions in mock mode;                  *)
(*   SpecScore       - the scoring and ranking of two candidates;          *)
(*   SpecApi         - the two endpoints, the generator outside mock mode  *)
(*                     and the streaming coordinator; SpecApiFair adds the *)
(*                     scheduling of the handler and of its worker.        *)
(*                                                                         *)
(* Optional values (Python None) are the record None; every other value is *)
(* a record too, so that `x = None` is always defined.                     *)
(***************************************************************************)
EXTENDS Integers, Sequences, FiniteSets, TLC

VARIABLES
    clock,                \* time.monotonic(), in seconds
    WEATHER_CACHE,        \* _WEATHER_CACHE: key -> (timestamp, payload) or None
    FESTIVAL_CACHE,       \* _FESTIVAL_CACHE: key -> (timestamp, payload) or None
    WEATHER_CACHE_LOCK,   \* _WEATHER_CACHE_LOCK: the thread holding it, or 0
    FESTIVAL_CACHE_LOCK,  \* _FESTIVAL_CACHE_LOCK: the thread holding it, or 0
    thr,                  \* per thread: position and locals of the running call
    req,                  \* the gather_context call in progress
    eventbrite_loaded,    \* _eventbrite_get_events is not None
    lookups,              \* history: lookups started by the direct callers, per
                          \* cache and key, and gather_context calls started
    fetches,              \* history: provider requests sent, per cache and key
    insertedAt,           \* history: clock at which the key's entry was last written
    MOCK_EVENTS,          \* data.mock_events.MOCK_EVENTS: the shared candidate pool
    mock,                 \* calls of the deterministic backend: the last one and
                          \* one remembered earlier one
    api                   \* the HTTP request being handled and what it has sent

vars == <<clock, WEATHER_CACHE, FESTIVAL_CACHE, WEATHER_CACHE_LOCK,
          FESTIVAL_CACHE_LOCK, thr, req, eventbrite_loaded, lookups, fetches,
          insertedAt,
         MOCK_EVENTS, mock, api>>

\* The state of the aggregator module and of its callers.
aggregatorVars == <<clock, WEATHER_CACHE, FESTIVAL_CACHE, WEATHER_CACHE_LOCK,
                    FESTIVAL_CACHE_LOCK, thr, req, eventbrite_loaded, lookups,
                    fetches, insertedAt>>

\* The state of the generator, of the pool and of the two endpoints.
apiVars == <<MOCK_EVENTS, mock, api>>

-----------------------------------------------------------------------------
(* Program constants *)

WEATHER_CACHE_TTL_SECONDS == 600

FESTIVAL_CACHE_TTL_SECONDS == 1800

max_workers == 3

(* Bounds of the model *)

MaxTicks == 3

MaxLookups == 2

MaxGathers == 2

\* The clock advances in steps of the largest unit that divides both TTLs, so
\* that a lookup can fall exactly on, before and after each expiry.
TickSeconds == WEATHER_CACHE_TTL_SECONDS

MaxClock == MaxTicks * TickSeconds

None == [none |-> TRUE]

Dates == {1, 2}

Cities == {"Edinburgh"}

CountryCodes == {"GB"}

Threads == 1 .. max_workers

\* Threads that call the two cached lookups directly (SpecCache), and the
\* dates they ask for.
Callers == {1, 2}

CallerDates == {1}

Caches == {"weather", "festival"}

Providers == {"weather", "festival", "eventbrite"}

\* date.isoformat(): the text of a date, distinct from the date itself.
isoformat(d) == [iso |-> d]

FestivalIds == {None}

FestivalLimits == {[limit |-> 25]}

\* Mutant: the key does not tell the dates apart.
WeatherKey_oneDate(city, country_code, target_date) ==
    <<city, country_code, isoformat(1)>>

\* cache_key = (city, country_code, target_date.isoformat())
WeatherKey(city, country_code, target_date) ==
    <<city, country_code, isoformat(target_date)>>

\* cache_key = (target_date.isoformat(), festival_identifier, festival_limit)
FestivalKey(target_date, festival_identifier, festival_limit) ==
    <<isoformat(target_date), festival_identifier, festival_limit>>

WeatherKeys ==
    {WeatherKey(c, cc, d) : c \in Cities, cc \in CountryCodes, d \in Dates}

FestivalKeys ==
    {FestivalKey(d, f, l) : d \in Dates, f \in FestivalIds, l \in FestivalLimits}

-----------------------------------------------------------------------------
(* Values *)

\* A cache entry: the tuple (timestamp, payload).
Entry(ts, payload) == [ts |-> ts, payload |-> payload]

\* weather_payload_with_date: a new dict per successful fetch; `id` is its
\* identity (the number, among the key's requests, of the request that
\* produced it).
WeatherPayload(id, target_date) ==
    [src |-> "weather", id |-> id, date |-> isoformat(target_date)]

\* fetch_festival_events' return value {"date": ..., "events": [...]}.
FestivalPayload(id, event_date) ==
    [src |-> "festival", id |-> id, date |-> isoformat(event_date)]

Exc(type, msg) == [type |-> type, msg |-> msg]

\* The failures of the weather provider call once the request is on the wire:
\* a WeatherFetchError (requests.RequestException: timeout, connection error,
\* non-2xx status; or a body whose "cod" reports an error), and any other
\* exception (a body that is not JSON).
WeatherNetworkFailures ==
    { Exc("WeatherFetchError", "Failed to fetch weather for location: timeout"),
      Exc("JSONDecodeError", "Expecting value") }

WeatherKeyMissing ==
    Exc("WeatherFetchError", "OPENWEATHERMAP_API_KEY is not configured.")

\* The failures of the festival provider call once the request is on the wire:
\* a FestivalsAPIError (requests.RequestException: timeout, connection error,
\* non-2xx status; or a payload that is no list). gather_context treats any
\* other exception of the call the same way.
FestivalNetworkFailures ==
    { Exc("FestivalsAPIError", "Failed to fetch festival events") }

FestivalKeyMissing ==
    Exc("FestivalsAPIError",
        "EDINBURGH_FESTIVALS_API_KEY and EDINBURGH_FESTIVALS_SECRET_KEY must be set")

IdleThread ==
    [pc |-> "idle", fn |-> "none", key |-> None, date |-> 0, now |-> 0,
     payload |-> None, exc |-> None, called |-> 0]

IdleRequest ==
    [pc |-> "idle", date |-> 0, city |-> "none", preferences |-> None,
     bundle |-> None, exc |-> None]

\* A Python str (kept apart from None).
Str(s) == [str |-> s]

\* The list get_events returns; `id` is its identity (the number of the
\* gather_context call that asked for it).
EventbriteEvents(id) == [src |-> "eventbrite", id |-> id]

\* `eventbrite_events: list[Any] = []`
EmptyList == [src |-> "default", id |-> 0]

\* festival_events = {"date": resolved_date.isoformat(), "events": []}
DefaultFestivalEvents(resolved_date) ==
    [src |-> "default", id |-> 0, date |-> isoformat(resolved_date)]

\* get_events without a Google Maps API key raises before any request.
EventbriteKeyMissing ==
    Exc("ValueError", "Google Maps API key is required.")

\* The failures of the scraper once its requests are on the wire.
EventbriteNetworkFailures ==
    { Exc("RuntimeError", "Failed to fetch events from Eventbrite") }

ScraperUnavailable ==
    Exc("RuntimeError", "Eventbrite scraper is unavailable.")

-----------------------------------------------------------------------------
(* The cache layer *)

\* Mutant: the age of the entry is not looked at.
IsFresh_noExpiry(now, cached, ttl) ==
    cached # None

\* `cached and now - cached[0] < TTL`: a (timestamp, payload) tuple is truthy.
IsFresh(now, cached, ttl) ==
    cached # None /\ now - cached.ts < ttl

\* Mutant: the lock is not released when the block is left.
LockAfterRead_held(t) == t

\* The holder of a cache lock once the thread has left the `with` block that
\* read the map: the block's exit releases the lock, on the early return and
\* on the fall-through to the provider call alike.
LockAfterRead(t) == 0

\* Mutant: the entry is stored before its payload is there.
StoredEntry_noPayload(t) == Entry(thr[t].now, None)

\* What a write under the lock stores: `CACHE[cache_key] = (now, payload)`,
\* where `now` is the thread's reading of the clock taken before the lookup.
StoredEntry(t) == Entry(thr[t].now, thr[t].payload)

\* Mutant: a failed fetch falls through to the write block.
AfterFailure_stores == "write_wait"

\* Where a lookup is once its fetch has raised: the exception leaves the
\* function from the line of the provider call, past the block that writes
\* the map and past the return.
AfterFailure == "raised"

Tick ==
    /\ clock + TickSeconds <= MaxClock
    /\ clock' = clock + TickSeconds
    /\ UNCHANGED <<WEATHER_CACHE, FESTIVAL_CACHE, WEATHER_CACHE_LOCK,
                   FESTIVAL_CACHE_LOCK, thr, req, eventbrite_loaded, lookups,
                   fetches, insertedAt>>
    /\ UNCHANGED apiVars

\* The first two statements of a cached lookup: the key and `now`.
BeginLookup(fn, key, d) ==
    [IdleThread EXCEPT !.pc = "read_wait", !.fn = fn, !.key = key, !.date = d,
                       !.now = clock]

\* get_todays_weather_forecast: `with _WEATHER_CACHE_LOCK:` (first block).
WeatherAcquireRead(t) ==
    /\ thr[t].fn = "weather" /\ thr[t].pc = "read_wait"
    /\ WEATHER_CACHE_LOCK = 0
    /\ WEATHER_CACHE_LOCK' = t
    /\ thr' = [thr EXCEPT ![t].pc = "read"]
    /\ UNCHANGED <<clock, WEATHER_CACHE, FESTIVAL_CACHE, FESTIVAL_CACHE_LOCK,
                   req, eventbrite_loaded, lookups, fetches>>
    /\ UNCHANGED apiVars

\* cached = _WEATHER_CACHE.get(cache_key); on a hit `return cached[1]`. Leaving
\* the block releases the lock either way. On a miss the thread goes on into
\* _fetch_weather_from_api: without OPENWEATHERMAP_API_KEY it
\* raises before any request is sent; otherwise the request goes on the wire.
WeatherRead(t) ==
    /\ thr[t].fn = "weather" /\ thr[t].pc = "read"
    /\ WEATHER_CACHE_LOCK = t
    /\ WEATHER_CACHE_LOCK' = LockAfterRead(t)
    /\ LET cached == WEATHER_CACHE[thr[t].key] IN
         IF IsFresh(thr[t].now, cached, WEATHER_CACHE_TTL_SECONDS)
         THEN /\ thr' = [thr EXCEPT ![t].pc = "returned",
                                    ![t].payload = cached.payload]
              /\ UNCHANGED fetches
         ELSE \E credentials \in BOOLEAN :
                IF credentials
                THEN /\ thr' = [thr EXCEPT ![t].pc = "in_flight",
                                           ![t].called = fetches.weather[thr[t].key] + 1]
                     /\ fetches' = [fetches EXCEPT !.weather[thr[t].key] = @ + 1]
                ELSE /\ thr' = [thr EXCEPT ![t].pc = AfterFailure,
                                           ![t].exc = WeatherKeyMissing]
                     /\ UNCHANGED fetches
    /\ UNCHANGED <<clock, WEATHER_CACHE, FESTIVAL_CACHE, FESTIVAL_CACHE_LOCK,
                   req, eventbrite_loaded, lookups>>
    /\ UNCHANGED apiVars

\* The provider answers: a usable payload, copied into a new dict that gets the date,
\* or a failure, which propagates to the caller of the lookup.
WeatherFetchDone(t) ==
    /\ thr[t].fn = "weather" /\ thr[t].pc = "in_flight"
    /\ \/ thr' = [thr EXCEPT ![t].pc = "write_wait",
                             ![t].payload =
                                 WeatherPayload(thr[t].called, thr[t].date)]
       \/ \E e \in WeatherNetworkFailures :
            thr' = [thr EXCEPT ![t].pc = AfterFailure, ![t].exc = e]
    /\ UNCHANGED <<clock, WEATHER_CACHE, FESTIVAL_CACHE, WEATHER_CACHE_LOCK,
                   FESTIVAL_CACHE_LOCK, req, eventbrite_loaded, lookups, fetches>>
    /\ UNCHANGED apiVars

\* `with _WEATHER_CACHE_LOCK:` (second block).
WeatherAcquireWrite(t) ==
    /\ thr[t].fn = "weather" /\ thr[t].pc = "write_wait"
    /\ WEATHER_CACHE_LOCK = 0
    /\ WEATHER_CACHE_LOCK' = t
    /\ thr' = [thr EXCEPT ![t].pc = "write"]
    /\ UNCHANGED <<clock, WEATHER_CACHE, FESTIVAL_CACHE, FESTIVAL_CACHE_LOCK,
                   req, eventbrite_loaded, lookups, fetches>>
    /\ UNCHANGED apiVars

\* _WEATHER_CACHE[cache_key] = (now, payload); the block ends; return payload.
WeatherWrite(t) ==
    /\ thr[t].fn = "weather" /\ thr[t].pc = "write"
    /\ WEATHER_CACHE_LOCK = t
    /\ WEATHER_CACHE' = [WEATHER_CACHE EXCEPT ![thr[t].key] = StoredEntry(t)]
    /\ WEATHER_CACHE_LOCK' = 0
    /\ thr' = [thr EXCEPT ![t].pc = "returned"]
    /\ UNCHANGED <<clock, FESTIVAL_CACHE, FESTIVAL_CACHE_LOCK, req,
                   eventbrite_loaded, lookups, fetches>>
    /\ UNCHANGED apiVars

\* _get_festival_events_cached: `with _FESTIVAL_CACHE_LOCK:` (first block).
FestivalAcquireRead(t) ==
    /\ thr[t].fn = "festival" /\ thr[t].pc = "read_wait"
    /\ FESTIVAL_CACHE_LOCK = 0
    /\ FESTIVAL_CACHE_LOCK' = t
    /\ thr' = [thr EXCEPT ![t].pc = "read"]
    /\ UNCHANGED <<clock, WEATHER_CACHE, FESTIVAL_CACHE, WEATHER_CACHE_LOCK,
                   req, eventbrite_loaded, lookups, fetches>>
    /\ UNCHANGED apiVars

\* cached = _FESTIVAL_CACHE.get(cache_key); on a hit `return cached[1]`. Leaving
\* the block releases the lock either way. On a miss the thread goes on into
\* fetch_festival_events: without its two credentials it
\* raises before any request is sent; otherwise the request goes on the wire.
FestivalRead(t) ==
    /\ thr[t].fn = "festival" /\ thr[t].pc = "read"
    /\ FESTIVAL_CACHE_LOCK = t
    /\ FESTIVAL_CACHE_LOCK' = LockAfterRead(t)
    /\ LET cached == FESTIVAL_CACHE[thr[t].key] IN
         IF IsFresh(thr[t].now, cached, FESTIVAL_CACHE_TTL_SECONDS)
         THEN /\ thr' = [thr EXCEPT ![t].pc = "returned",
                                    ![t].payload = cached.payload]
              /\ UNCHANGED fetches
         ELSE \E credentials \in BOOLEAN :
                IF credentials
                THEN /\ thr' = [thr EXCEPT ![t].pc = "in_flight",
                                           ![t].called = fetches.festival[thr[t].key] + 1]
                     /\ fetches' = [fetches EXCEPT !.festival[thr[t].key] = @ + 1]
                ELSE /\ thr' = [thr EXCEPT ![t].pc = AfterFailure,
                                           ![t].exc = FestivalKeyMissing]
                     /\ UNCHANGED fetches
    /\ UNCHANGED <<clock, WEATHER_CACHE, FESTIVAL_CACHE, WEATHER_CACHE_LOCK,
                   req, eventbrite_loaded, lookups>>
    /\ UNCHANGED apiVars

\* The provider answers: a usable payload (the mapped events of the date),
\* or a failure, which propagates to the caller of the lookup.
FestivalFetchDone(t) ==
    /\ thr[t].fn = "festival" /\ thr[t].pc = "in_flight"
    /\ \/ thr' = [thr EXCEPT ![t].pc = "write_wait",
                             ![t].payload =
                                 FestivalPayload(thr[t].called, thr[t].date)]
       \/ \E e \in FestivalNetworkFailures :
            thr' = [thr EXCEPT ![t].pc = AfterFailure, ![t].exc = e]
    /\ UNCHANGED <<clock, WEATHER_CACHE, FESTIVAL_CACHE, WEATHER_CACHE_LOCK,
                   FESTIVAL_CACHE_LOCK, req, eventbrite_loaded, lookups, fetches>>
    /\ UNCHANGED apiVars

\* `with _FESTIVAL_CACHE_LOCK:` (second block).
FestivalAcquireWrite(t) ==
    /\ thr[t].fn = "festival" /\ thr[t].pc = "write_wait"
    /\ FESTIVAL_CACHE_LOCK = 0
    /\ FESTIVAL_CACHE_LOCK' = t
    /\ thr' = [thr EXCEPT ![t].pc = "write"]
    /\ UNCHANGED <<clock, WEATHER_CACHE, FESTIVAL_CACHE, WEATHER_CACHE_LOCK,
                   req, eventbrite_loaded, lookups, fetches>>
    /\ UNCHANGED apiVars

\* _FESTIVAL_CACHE[cache_key] = (now, payload); the block ends; return payload.
FestivalWrite(t) ==
    /\ thr[t].fn = "festival" /\ thr[t].pc = "write"
    /\ FESTIVAL_CACHE_LOCK = t
    /\ FESTIVAL_CACHE' = [FESTIVAL_CACHE EXCEPT ![thr[t].key] = StoredEntry(t)]
    /\ FESTIVAL_CACHE_LOCK' = 0
    /\ thr' = [thr EXCEPT ![t].pc = "returned"]
    /\ UNCHANGED <<clock, WEATHER_CACHE, WEATHER_CACHE_LOCK, req,
                   eventbrite_loaded, lookups, fetches>>
    /\ UNCHANGED apiVars

\* One step of a thread inside either cached lookup.
LookupStep(t) ==
    \/ WeatherAcquireRead(t) \/ WeatherRead(t) \/ WeatherFetchDone(t)
    \/ WeatherAcquireWrite(t) \/ WeatherWrite(t)
    \/ FestivalAcquireRead(t) \/ FestivalRead(t) \/ FestivalFetchDone(t)
    \/ FestivalAcquireWrite(t) \/ FestivalWrite(t)

\* History: the clock at which the step, if it is a write, inserts its entry.
RecordInsertion(t) ==
    insertedAt' = IF thr[t].pc = "write"
                  THEN [insertedAt EXCEPT ![thr[t].fn][thr[t].key] = [at |-> clock]]
                  ELSE insertedAt

-----------------------------------------------------------------------------
(* Direct callers of the two cached lookups *)

RECURSIVE SumOver(_, _)
SumOver(f, S) ==
    IF S = {} THEN 0
    ELSE LET k == CHOOSE x \in S : TRUE IN f[k] + SumOver(f, S \ {k})

\* History: the cache lookups started so far, over both caches and all keys.
TotalLookups ==
    SumOver(lookups.weather, WeatherKeys) + SumOver(lookups.festival, FestivalKeys)

\* A caller enters get_todays_weather_forecast(city, country_code, target_date).
CallWeather(t) ==
    /\ thr[t].pc = "idle"
    /\ \E city \in Cities, cc \in CountryCodes, d \in CallerDates :
         /\ TotalLookups < MaxLookups
         /\ thr' = [thr EXCEPT ![t] =
                        BeginLookup("weather", WeatherKey(city, cc, d), d)]
         /\ lookups' = [lookups EXCEPT !.weather[WeatherKey(city, cc, d)] = @ + 1]
    /\ UNCHANGED <<clock, WEATHER_CACHE, FESTIVAL_CACHE, WEATHER_CACHE_LOCK,
                   FESTIVAL_CACHE_LOCK, req, eventbrite_loaded, fetches,
                   insertedAt>>
    /\ UNCHANGED apiVars

\* A caller enters _get_festival_events_cached(target_date, festival, limit).
CallFestival(t) ==
    /\ thr[t].pc = "idle"
    /\ \E d \in CallerDates, f \in FestivalIds, l \in FestivalLimits :
         /\ TotalLookups < MaxLookups
         /\ thr' = [thr EXCEPT ![t] =
                        BeginLookup("festival", FestivalKey(d, f, l), d)]
         /\ lookups' = [lookups EXCEPT !.festival[FestivalKey(d, f, l)] = @ + 1]
    /\ UNCHANGED <<clock, WEATHER_CACHE, FESTIVAL_CACHE, WEATHER_CACHE_LOCK,
                   FESTIVAL_CACHE_LOCK, req, eventbrite_loaded, fetches,
                   insertedAt>>
    /\ UNCHANGED apiVars

\* The call has returned or raised; the caller's frame is gone.
CallerDone(t) ==
    /\ thr[t].pc \in {"returned", "raised"}
    /\ thr' = [thr EXCEPT ![t] = IdleThread]
    /\ UNCHANGED <<clock, WEATHER_CACHE, FESTIVAL_CACHE, WEATHER_CACHE_LOCK,
                   FESTIVAL_CACHE_LOCK, req, eventbrite_loaded, lookups,
                   fetches, insertedAt>>
    /\ UNCHANGED apiVars

-----------------------------------------------------------------------------
(* The deterministic (mock) backend: data/mock_events.py and the MOCK=1 branch
   of ActivitySuggestionGenerator.generate_suggestions.  Scores are in tenths. *)

\* MOCK_EVENTS as the module defines it: the events in order, each with its
\* event_score (9.2, 8.7, 8.1, 8.9, 8.4, 7.8, 8.0, 8.6).
MockPool ==
    << [id |-> 1, event_score |-> 92], [id |-> 2, event_score |-> 87],
       [id |-> 3, event_score |-> 81], [id |-> 4, event_score |-> 89],
       [id |-> 5, event_score |-> 84], [id |-> 6, event_score |-> 78],
       [id |-> 7, event_score |-> 80], [id |-> 8, event_score |-> 86] >>

\* `token in event_text` for event_text = f"{name} {description}".lower():
\* "music" occurs in event 2 only ("... live music, and craft stalls."),
\* "opera" in none.
TextContains(id, token) ==
    \/ token = "music" /\ id = 2

\* The words a preference text is made of, separated by non-word characters.
Words == {"Music", "opera", "at"}

\* str.lower()
lower(word) == IF word = "Music" THEN "music" ELSE word

\* len(token)
WordLen(word) ==
    CASE word = "at" -> 2
      [] word = " " -> 1
      [] OTHER -> 5

\* Longest preference text, in words.
MaxWords == 2

\* A str: the words it is made of.
Text(words) == [words |-> words]

\* response_preferences: None, the empty text, or words.
PreferenceTexts ==
    {None} \cup {Text(ws) : ws \in UNION {[1 .. n -> Words] : n \in 0 .. MaxWords}}

\* number_events of the calls made.
Counts == {1, 3, Len(MockPool) + 1}

Max(a, b) == IF a >= b THEN a ELSE b

Min(a, b) == IF a <= b THEN a ELSE b

\* Mutant: the limit is ignored.
get_mock_events_unbounded(pool, limit) == pool

\* get_mock_events: MOCK_EVENTS[:max(0, limit)]
get_mock_events(pool, limit) ==
    SubSeq(pool, 1, Min(Len(pool), Max(0, limit)))

\* _tokenize_preferences: no tokens for None or ""; else the lowercased text
\* split on non-word characters, keeping the tokens longer than 2.
tokenize_preferences(preferences) ==
    IF preferences = None \/ preferences.words = <<>>
    THEN <<>>
    ELSE LET lowered == [i \in 1 .. Len(preferences.words) |->
                            lower(preferences.words[i])]
             Keep(token) == WordLen(token) > 2
         IN SelectSeq(lowered, Keep)

\* The numerator of _match_ratio: sum(1 for token in tokens if token in text).
Matches(id, tokens) ==
    Cardinality({i \in 1 .. Len(tokens) : TextContains(id, tokens[i])})

\* The halfway cases, in tenths rounded down, that round(x, 1) takes up: x is
\* the float the blend computed, and round goes by its exact binary value.
\* For baselines in whole points the blend is halfway between two tenths only
\* at a match ratio of 1/2, and the floats of 5.75 and 6.65 are the ones not
\* below the halfway point (4.55, 4.85, 5.15, ... are below it).
HalfwayUp == {57, 66}

\* round(x, 1) of x = num / den tenths: the nearest tenth.  No halfway case
\* arises for the pool's scores with the match ratios of the texts modelled.
RoundTenths(num, den) ==
    (num \div den)
      + (IF \/ 2 * (num % den) > den
            \/ 2 * (num % den) = den /\ (num \div den) \in HalfwayUp
         THEN 1 ELSE 0)

\* Mutant: 70% baseline, 30% preference signal.
score_with_preferences_swapped(baseline, matches, total) ==
    LET adjusted == IF matches <= 0
                    THEN RoundTenths(7 * baseline * total + 200 * total, 10 * total)
                    ELSE RoundTenths(7 * baseline * total + 90 * total + 210 * matches,
                                     10 * total)
    IN Max(0, Min(100, adjusted))

\* _score_with_preferences, with match_ratio = matches / total:
\*   ratio <= 0:  baseline * 0.3 + 2.0
\*   otherwise:   baseline * 0.3 + (3.0 + 7.0 * ratio) * 0.7
\* clamped to [0, 10] and rounded to one decimal.
score_with_preferences(baseline, matches, total) ==
    LET adjusted == IF matches <= 0
                    THEN RoundTenths(3 * baseline * total + 200 * total, 10 * total)
                    ELSE RoundTenths(3 * baseline * total + 210 * total + 490 * matches,
                                     10 * total)
    IN Max(0, Min(100, adjusted))

\* The loop that re-scores every event of the list.
Rescore(events, tokens) ==
    [i \in 1 .. Len(events) |->
        [events[i] EXCEPT !.event_score =
            score_with_preferences(events[i].event_score,
                                   Matches(events[i].id, tokens), Len(tokens))]]

\* Mutant: a sort that is not stable.
InsertByScore_unstable(e, sorted) ==
    LET before == Cardinality({i \in 1 .. Len(sorted) : sorted[i].event_score > e.event_score})
    IN SubSeq(sorted, 1, before) \o <<e>> \o SubSeq(sorted, before + 1, Len(sorted))

\* Where list.sort(key=event_score, reverse=True), which is stable, puts an
\* element that came after all of `sorted` in the list: behind the elements
\* whose score is at least its own.
InsertByScore(e, sorted) ==
    LET before == Cardinality({i \in 1 .. Len(sorted) : sorted[i].event_score >= e.event_score})
    IN SubSeq(sorted, 1, before) \o <<e>> \o SubSeq(sorted, before + 1, Len(sorted))

RECURSIVE SortByScoreDesc(_)
SortByScoreDesc(events) ==
    IF events = <<>>
    THEN <<>>
    ELSE InsertByScore(events[Len(events)],
                       SortByScoreDesc(SubSeq(events, 1, Len(events) - 1)))

\* The MOCK=1 branch: copy the first number_events events of the pool, and if
\* there are preference tokens re-score the copies and sort them.
MockSuggestions(pool, number_events, response_preferences) ==
    LET events == get_mock_events(pool, number_events)
        tokens == tokenize_preferences(response_preferences)
    IN IF tokens = <<>>
       THEN events
       ELSE SortByScoreDesc(Rescore(events, tokens))

\* Mutant: the events re-scored are the pool's own objects, not copies.
PoolAfterCall_aliased(pool, number_events, response_preferences) ==
    LET events == get_mock_events(pool, number_events)
        tokens == tokenize_preferences(response_preferences)
    IN IF tokens = <<>>
       THEN pool
       ELSE [i \in 1 .. Len(pool) |->
                IF i <= Len(events) THEN Rescore(events, tokens)[i] ELSE pool[i]]

\* The pool after a call: `event.model_copy(deep=True)` gives the call its
\* own objects, so the assignments to event_score and the sort of the local
\* list leave MOCK_EVENTS as it was.
PoolAfterCall(pool, number_events, response_preferences) == pool

\* No call made or remembered yet.
IdleMock == [last |-> None, kept |-> None, other |-> FALSE, scored |-> None]

\* One call of the backend: the result goes to the caller.
CallMock ==
    \E number_events \in Counts : \E response_preferences \in PreferenceTexts :
        /\ mock' = [mock EXCEPT
                       !.last = [number_events |-> number_events,
                                 response_preferences |-> response_preferences,
                                 result |-> MockSuggestions(MOCK_EVENTS, number_events,
                                                            response_preferences)],
                       !.other = \/ mock.other
                                 \/ /\ mock.kept # None
                                    /\ mock.kept.response_preferences # response_preferences]
        /\ MOCK_EVENTS' = PoolAfterCall(MOCK_EVENTS, number_events, response_preferences)
        /\ UNCHANGED api
        /\ UNCHANGED aggregatorVars

\* The observer keeps the last call to compare later calls with it, and notes
\* from then on whether a call with other preferences has been made.
RememberCall ==
    /\ mock.last # None
    /\ mock.kept # mock.last \/ mock.other
    /\ mock' = [mock EXCEPT !.kept = mock.last, !.other = FALSE]
    /\ UNCHANGED <<MOCK_EVENTS, api>>
    /\ UNCHANGED aggregatorVars

\* Baseline scores of candidates, in tenths: the whole points of [0, 10].
Baselines == {10 * b : b \in 0 .. 10}

\* Most preference tokens of a text scored.
MaxTokens == 3

\* The re-scoring and the sort of generate_suggestions applied to two
\* candidates: one whose text contains `matches` of the `total` tokens and
\* one whose text contains none, in either order in the list.
ScoreCall ==
    \E matching \in Baselines, other \in Baselines, total \in 1 .. MaxTokens,
       matched_first \in BOOLEAN :
      \E matches \in 1 .. total :
        LET a == [id |-> 1, matches |-> matches,
                  event_score |-> score_with_preferences(matching, matches, total)]
            b == [id |-> 2, matches |-> 0,
                  event_score |-> score_with_preferences(other, 0, total)]
        IN /\ mock' = [mock EXCEPT
                          !.scored = [baselines |-> <<matching, other>>,
                                      total |-> total,
                                      events |-> SortByScoreDesc(
                                          IF matched_first THEN <<a, b>> ELSE <<b, a>>)]]
           /\ UNCHANGED <<MOCK_EVENTS, api>>
           /\ UNCHANGED aggregatorVars

\* No request received.
IdleApi ==
    [pc |-> "idle",               \* where the handler of the request is
     endpoint |-> "none",         \* "recommendations" or "stream"
     number_events |-> 0,         \* request.number_events
     response_preferences |-> None,
     mock_mode |-> FALSE,         \* os.getenv("MOCK") == "1"
     up |-> {},                   \* the models whose call succeeds, from the
                                  \* time the backend can be called
     streams |-> FALSE,           \* the aggregator has gather_context_streaming
     takes_context |-> FALSE,     \* generate_suggestions accepts a third argument
     context |-> None,            \* the bundle gathered
     model_candidates |-> <<>>,   \* LLM._model_candidates
     gathers_before |-> 0,        \* gather_context calls made before this request
     llm_calls |-> <<>>,          \* the calls of generate_event_suggestions
     ranked_events |-> <<>>,      \* what generate_event_suggestions returned
     attempts |-> <<>>,           \* the models tried by generate_event_suggestions
     events |-> <<>>,             \* the events the generator returned
     exc |-> None,                \* the exception that left the handler
     response |-> None,           \* the HTTP response: status and events
     sent |-> <<>>,               \* the events yielded to the client so far
     worker |-> "none",           \* the generation worker's future
     worker_exc |-> None,         \* the exception the worker raised
     submitted |-> None,          \* the arguments the worker was submitted with
     step_index |-> 0,
     serialized_events |-> <<>>]

Init ==
    /\ clock = 0
    /\ WEATHER_CACHE = [k \in WeatherKeys |-> None]
    /\ FESTIVAL_CACHE = [k \in FestivalKeys |-> None]
    /\ WEATHER_CACHE_LOCK = 0
    /\ FESTIVAL_CACHE_LOCK = 0
    /\ thr = [t \in Threads |-> IdleThread]
    /\ req = IdleRequest
    /\ eventbrite_loaded \in BOOLEAN
    /\ lookups = [weather |-> [k \in WeatherKeys |-> 0],
                  festival |-> [k \in FestivalKeys |-> 0],
                  gather |-> 0]
    /\ fetches = [weather |-> [k \in WeatherKeys |-> 0],
                  festival |-> [k \in FestivalKeys |-> 0]]
    /\ insertedAt = [weather |-> [k \in WeatherKeys |-> None],
                     festival |-> [k \in FestivalKeys |-> None]]
    /\ MOCK_EVENTS = MockPool
    /\ mock = IdleMock
    /\ api = IdleApi

NextCache ==
    \/ Tick
    \/ \E t \in Callers : CallWeather(t)
    \/ \E t \in Callers : CallFestival(t)
    \/ \E t \in Callers : LookupStep(t) /\ RecordInsertion(t)
    \/ \E t \in Callers : CallerDone(t)

\* The callers of SpecCache do not go through gather_context: the scraper's
\* import status plays no part.
InitCache == Init /\ eventbrite_loaded

SpecCache == InitCache /\ [][NextCache]_vars

NextMock ==
    \/ CallMock
    \/ RememberCall

\* The backend is called directly; the aggregator plays no part.
SpecMock == InitCache /\ [][NextMock]_vars

\* The scoring and ranking of two candidates, for every pair of baselines.
SpecScore == InitCache /\ [][ScoreCall]_vars

-----------------------------------------------------------------------------
(* gather_context *)

\* The tasks of one gather_context call, in the order they are submitted.
WeatherTask == 1

FestivalTask == 2

EventbriteTask == 3

Finished(task) == task.pc \in {"returned", "raised"}

\* Mutant: the bundle is assembled without waiting for the festival task.
PoolJoined_skipsFestival ==
    Finished(thr[WeatherTask]) /\ Finished(thr[EventbriteTask])

\* Leaving `with ThreadPoolExecutor(max_workers=3) as executor:` shuts the
\* pool down with wait=True: every submitted task has returned or raised.
PoolJoined == \A t \in Threads : Finished(thr[t])

\* Mutant: the defensive `except Exception` clause is missing.
WeatherHandlers_noGuard == {"WeatherFetchError"}

\* The except clauses around each future.result().
WeatherHandlers == {"WeatherFetchError", "Exception"}

FestivalHandlers == {"FestivalsAPIError", "Exception"}

EventbriteHandlers == {"Exception"}

\* Every exception a provider call raises here derives from Exception.
Caught(exc, handlers) == exc.type \in handlers \/ "Exception" \in handlers

\* The exceptions that escape the three try blocks, in the order of the blocks.
Escaping ==
    LET esc(t, handlers) ==
            IF thr[t].pc = "raised" /\ ~Caught(thr[t].exc, handlers)
            THEN <<thr[t].exc>> ELSE <<>>
    IN esc(WeatherTask, WeatherHandlers) \o esc(FestivalTask, FestivalHandlers)
       \o esc(EventbriteTask, EventbriteHandlers)

\* weather_future.result() under `except WeatherFetchError` / `except Exception`.
CollectWeather(task) ==
    IF task.pc = "returned"
    THEN [weather |-> task.payload, weather_error |-> None]
    ELSE [weather |-> None, weather_error |-> Str(task.exc.msg)]

\* festival_future.result(): a failure is logged and the default is kept.
CollectFestival(task, default) ==
    IF task.pc = "returned" THEN task.payload ELSE default

\* eventbrite_future.result() under `except Exception`.
CollectEventbrite(task) ==
    IF task.pc = "returned"
    THEN [eventbrite_events |-> task.payload, eventbrite_error |-> None]
    ELSE [eventbrite_events |-> EmptyList,
          eventbrite_error |-> Str(task.exc.msg)]

\* What response_preferences may be for gather_context: None, or a text of
\* words and runs of whitespace (" "), which may lead or trail.
GatherTexts ==
    {None} \cup {Text(ws) : ws \in UNION {[1 .. n -> Words \cup {" "}] : n \in 0 .. MaxWords}}

\* str.strip(): the text without its leading and trailing whitespace.
strip(text) ==
    LET solid == {i \in 1 .. Len(text.words) : text.words[i] # " "} IN
    IF solid = {}
    THEN Text(<<>>)
    ELSE Text(SubSeq(text.words,
                     CHOOSE i \in solid : \A j \in solid : i <= j,
                     CHOOSE i \in solid : \A j \in solid : i >= j))

\* str.lower() of a text.
lower_text(text) == Text([i \in 1 .. Len(text.words) |-> lower(text.words[i])])

\* raw_preferences = (response_preferences or "").strip()
raw_preferences(response_preferences) ==
    strip(IF response_preferences = None THEN Text(<<>>) ELSE response_preferences)

\* _extract_preference_keywords: [] for ""; else the lowercased text split on
\* non-word characters, keeping the tokens longer than 2.
extract_preference_keywords(preferences) ==
    IF preferences.words = <<>>
    THEN <<>>
    ELSE LET lowered == lower_text(preferences).words
             Keep(token) == token # " " /\ WordLen(token) > 2
         IN SelectSeq(lowered, Keep)

\* The mapping gather_context returns.
Bundle(preferences, resolved_date, default_city, weather, festival_events, eventbrite) ==
    [date |-> isoformat(resolved_date),
     preferences |-> lower_text(raw_preferences(preferences)),
     preferences_raw |-> raw_preferences(preferences),
     preferences_normalized |-> lower_text(raw_preferences(preferences)),
     preference_keywords |->
         extract_preference_keywords(raw_preferences(preferences)),
     has_preferences |-> raw_preferences(preferences).words # <<>>,
     city |-> default_city,
     weather |-> weather.weather,
     weather_error |-> weather.weather_error,
     festival_events |-> festival_events,
     eventbrite_events |-> eventbrite.eventbrite_events,
     eventbrite_error |-> eventbrite.eventbrite_error]

\* Mutant: the check is missing.
ScraperCheckPasses_always == TRUE

\* `if _eventbrite_get_events is None: raise RuntimeError(...)`
ScraperCheckPasses == eventbrite_loaded

\* gather_context up to the scraper check: the date is resolved, then the
\* call raises when the scraper could not be imported.
GatherCall(response_preferences) ==
    /\ req.pc = "idle"
    /\ lookups.gather < MaxGathers
    /\ \E target_date \in Dates \cup {0}, today \in Dates, city \in Cities :
         LET resolved_date == IF target_date # 0 THEN target_date ELSE today IN
         req' = IF ScraperCheckPasses
                THEN [IdleRequest EXCEPT !.pc = "submit", !.date = resolved_date,
                                         !.city = city,
                                         !.preferences = response_preferences]
                ELSE [IdleRequest EXCEPT !.pc = "raised", !.date = resolved_date,
                                         !.city = city,
                                         !.preferences = response_preferences,
                                         !.exc = ScraperUnavailable]
    /\ lookups' = [lookups EXCEPT !.gather = @ + 1]
    /\ UNCHANGED <<clock, WEATHER_CACHE, FESTIVAL_CACHE, WEATHER_CACHE_LOCK,
                   FESTIVAL_CACHE_LOCK, thr, eventbrite_loaded, fetches,
                   insertedAt>>
    /\ UNCHANGED apiVars

\* gather_context(None, target_date=...), as the callers without preferences
\* call it.
GatherEnter == GatherCall(None)

\* The three executor.submit calls. The pool has a free thread for each task
\* (three tasks, max_workers=3), so each task starts at once: the two cached
\* lookups compute their key and read the clock; get_events is entered and,
\* without a Google Maps API key, raises ValueError before any request, while
\* otherwise the scraper's requests begin. No cache is consulted for it.
\* today_only, the scraper's second argument, only filters the list it
\* returns and is left out.
GatherSubmit ==
    /\ req.pc = "submit"
    /\ \E cc \in CountryCodes, f \in FestivalIds, l \in FestivalLimits,
          api_key \in BOOLEAN :
         LET wkey == WeatherKey(req.city, cc, req.date)
             fkey == FestivalKey(req.date, f, l)
         IN
         /\ thr' = [thr EXCEPT
               ![WeatherTask] = BeginLookup("weather", wkey, req.date),
               ![FestivalTask] = BeginLookup("festival", fkey, req.date),
               ![EventbriteTask] =
                   IF api_key
                   THEN [IdleThread EXCEPT !.pc = "in_flight", !.fn = "eventbrite",
                                           !.called = lookups.gather]
                   ELSE [IdleThread EXCEPT !.pc = "raised", !.fn = "eventbrite",
                                           !.exc = EventbriteKeyMissing]]
    /\ req' = [req EXCEPT !.pc = "pool"]
    /\ UNCHANGED <<clock, WEATHER_CACHE, FESTIVAL_CACHE, WEATHER_CACHE_LOCK,
                   FESTIVAL_CACHE_LOCK, eventbrite_loaded, lookups, fetches,
                   insertedAt>>
    /\ UNCHANGED apiVars

\* The scraper returns its list of events, or fails.
EventbriteDone(t) ==
    /\ thr[t].pc = "in_flight" /\ thr[t].fn = "eventbrite"
    /\ \/ thr' = [thr EXCEPT ![t].pc = "returned",
                             ![t].payload = EventbriteEvents(thr[t].called)]
       \/ \E e \in EventbriteNetworkFailures :
            thr' = [thr EXCEPT ![t].pc = "raised", ![t].exc = e]
    /\ UNCHANGED <<clock, WEATHER_CACHE, FESTIVAL_CACHE, WEATHER_CACHE_LOCK,
                   FESTIVAL_CACHE_LOCK, req, eventbrite_loaded, lookups,
                   fetches, insertedAt>>
    /\ UNCHANGED apiVars

\* The pool is joined, the three futures are read (an exception no clause
\* catches leaves gather_context) and the bundle is returned.
GatherJoin ==
    /\ req.pc = "pool"
    /\ PoolJoined
    /\ req' = IF Escaping # <<>>
                THEN [req EXCEPT !.pc = "raised", !.exc = Head(Escaping)]
                ELSE [req EXCEPT
                        !.pc = "returned",
                        !.bundle = Bundle(req.preferences, req.date, req.city,
                                          CollectWeather(thr[WeatherTask]),
                                          CollectFestival(thr[FestivalTask],
                                              DefaultFestivalEvents(req.date)),
                                          CollectEventbrite(thr[EventbriteTask]))]
    /\ UNCHANGED <<clock, WEATHER_CACHE, FESTIVAL_CACHE, WEATHER_CACHE_LOCK,
                   FESTIVAL_CACHE_LOCK, thr, eventbrite_loaded, lookups,
                   fetches, insertedAt>>
    /\ UNCHANGED apiVars

\* The caller has the bundle (or the exception); the call's frame and its
\* pool are gone.
GatherDone ==
    /\ req.pc \in {"returned", "raised"}
    /\ req' = IdleRequest
    /\ thr' = [t \in Threads |-> IdleThread]
    /\ UNCHANGED <<clock, WEATHER_CACHE, FESTIVAL_CACHE, WEATHER_CACHE_LOCK,
                   FESTIVAL_CACHE_LOCK, eventbrite_loaded, lookups, fetches,
                   insertedAt>>
    /\ UNCHANGED apiVars

NextGather ==
    \/ Tick
    \/ GatherEnter
    \/ GatherSubmit
    \/ \E t \in Threads : LookupStep(t) /\ UNCHANGED insertedAt
    \/ \E t \in Threads : EventbriteDone(t)
    \/ GatherJoin
    \/ GatherDone

SpecGather == Init /\ [][NextGather]_vars

\* date.today() while the requests modelled are handled.
Today == 1

\* gather_context(response_preferences) called for today with every text.
GatherWithPreferences ==
    \E response_preferences \in GatherTexts :
        GatherCall(response_preferences) /\ req'.date = Today

NextPreferences ==
    \/ GatherWithPreferences
    \/ GatherSubmit
    \/ \E t \in Threads : LookupStep(t) /\ UNCHANGED insertedAt
    \/ \E t \in Threads : EventbriteDone(t)
    \/ GatherJoin
    \/ GatherDone

SpecPreferences == Init /\ [][NextPreferences]_vars

-----------------------------------------------------------------------------
(* Properties of the cache layer (SpecCache) *)

CacheOf(fn) == IF fn = "weather" THEN WEATHER_CACHE ELSE FESTIVAL_CACHE

TTLOf(fn) ==
    IF fn = "weather" THEN WEATHER_CACHE_TTL_SECONDS ELSE FESTIVAL_CACHE_TTL_SECONDS

LockOf(fn) == IF fn = "weather" THEN WEATHER_CACHE_LOCK ELSE FESTIVAL_CACHE_LOCK

KeysOf(fn) == IF fn = "weather" THEN WeatherKeys ELSE FestivalKeys

\* C1: a lookup made less than the TTL after an earlier lookup of the same key
\* stored its payload returns that very payload and sends no request to the
\* provider. Stated on the step that reads the map: if the key's entry was
\* inserted before this lookup read the clock, and less than TTL seconds
\* before, the step returns the stored payload and no request is sent.
C1_LookupWithinTTLOfStoreHits ==
    [][\A t \in Callers :
         (thr[t].pc = "read" /\ thr'[t].pc # "read")
         => LET fn == thr[t].fn
                k == thr[t].key
                stored == insertedAt[fn][k]
            IN (/\ stored # None
                /\ thr[t].now > stored.at
                /\ thr[t].now - stored.at < TTLOf(fn))
               => /\ thr'[t].pc = "returned"
                  /\ thr'[t].payload = CacheOf(fn)[k].payload
                  /\ fetches' = fetches]_vars

\* C2: the timestamp stored with an entry is the time at which the entry was
\* inserted, whatever the duration of the fetch that produced it.
C2_TimestampIsInsertionTime ==
    \A fn \in Caches : \A k \in KeysOf(fn) :
        CacheOf(fn)[k] # None =>
            /\ insertedAt[fn][k] # None
            /\ CacheOf(fn)[k].ts = insertedAt[fn][k].at

\* A payload as a finished provider call for key k of cache fn builds it.
WholePayload(payload, fn, k) ==
    /\ payload # None
    /\ DOMAIN payload = {"src", "id", "date"}
    /\ payload.src = fn
    /\ payload.id \in 1 .. fetches[fn][k]
    /\ payload.date = (IF fn = "weather" THEN k[3] ELSE k[1])
    \* the request that produced it has been answered
    /\ \A u \in Threads :
           (thr[u].fn = fn /\ thr[u].key = k /\ thr[u].pc = "in_flight")
           => thr[u].called # payload.id

\* C3: under any interleaving of lookups racing on a key, every lookup that
\* returns has a whole payload produced by one finished provider call for that
\* key, every entry in a cache map is a whole (timestamp, payload) pair, and
\* the provider calls made for a key never outnumber the lookups of it.
C3_RacingLookupsSeeWholeEntries ==
    /\ \A t \in Callers :
           thr[t].pc = "returned" => WholePayload(thr[t].payload, thr[t].fn, thr[t].key)
    /\ \A fn \in Caches : \A k \in KeysOf(fn) :
           /\ CacheOf(fn)[k] # None =>
                 /\ DOMAIN CacheOf(fn)[k] = {"ts", "payload"}
                 /\ CacheOf(fn)[k].ts \in 0 .. clock
                 /\ WholePayload(CacheOf(fn)[k].payload, fn, k)
           /\ fetches[fn][k] <= lookups[fn][k]

\* Two lookups of one key had their provider calls in flight together, and
\* one of them has returned its payload while the other has stored its own.
C3_Witness ==
    \E t, u \in Callers :
        /\ t # u /\ thr[t].fn = thr[u].fn /\ thr[t].key = thr[u].key
        /\ thr[t].pc = "returned" /\ thr[u].pc = "returned"
        /\ thr[t].called # 0 /\ thr[u].called # 0
        /\ thr[t].payload # thr[u].payload

\* C4: a thread holding a cache lock is reading or writing that map's entry
\* and nothing else: no lock is held while a provider call is in flight, and
\* each map has its own lock (a thread inside one map's block does not hold
\* the other map's lock).
C4_LocksHeldOnlyAroundOneEntry ==
    /\ \A fn \in Caches :
           LockOf(fn) # 0 =>
               /\ LockOf(fn) \in Threads
               /\ thr[LockOf(fn)].fn = fn
               /\ thr[LockOf(fn)].pc \in {"read", "write"}
    /\ \A t \in Threads :
           /\ thr[t].pc \in {"read", "write"} =>
                 /\ LockOf(thr[t].fn) = t
                 /\ \A other \in Caches \ {thr[t].fn} : LockOf(other) # t
           /\ thr[t].pc \notin {"read", "write"} =>
                 \A fn \in Caches : LockOf(fn) # t

\* One thread is inside the weather block while another is inside the
\* festival block: the two locks are held at once, by different threads.
C4_Witness ==
    /\ WEATHER_CACHE_LOCK # 0 /\ FESTIVAL_CACHE_LOCK # 0
    /\ thr[WEATHER_CACHE_LOCK].pc = "write"
    /\ thr[FESTIVAL_CACHE_LOCK].pc = "read"

\* C27: whatever the interleaving of the lookups of a key, no write replaces
\* the key's entry by one with an older timestamp, and none replaces the
\* result of a request by the result of a request sent before it (requests
\* for a key are numbered in the order in which they are sent).
C27_EntryNeverGoesBack ==
    [][\A fn \in Caches : \A k \in KeysOf(fn) :
         LET old == CacheOf(fn)[k]
             new == CacheOf(fn)'[k]
         IN old # None => /\ new # None
                          /\ new.ts >= old.ts
                          /\ new.payload.id >= old.payload.id]_vars

\* An entry the lookup of thread t would not serve: none, or one as old as
\* the TTL or older at the time the thread read the clock.
NotServed(t) ==
    LET cached == CacheOf(thr[t].fn)[thr[t].key]
    IN cached = None \/ thr[t].now - cached.ts >= TTLOf(thr[t].fn)

\* C28: no step of a lookup whose fetch has raised, the failing step
\* included, changes either cache map, so that nothing is stored for the
\* failure and an expired entry of the key stays as it was; and a lookup that
\* finds no entry or an expired one does not return from the map: it goes to
\* the provider, and unless the provider's credentials are missing a new
\* request is sent.
C28_FailedFetchStoresNothing ==
    [][\A t \in Callers :
         /\ (thr'[t] # thr[t] /\ (thr[t].exc # None \/ thr'[t].exc # None))
              => /\ WEATHER_CACHE' = WEATHER_CACHE
                 /\ FESTIVAL_CACHE' = FESTIVAL_CACHE
         /\ (thr[t].pc = "read" /\ thr'[t].pc # "read" /\ NotServed(t))
              => /\ thr'[t].pc # "returned"
                 /\ thr'[t].exc = None
                      => fetches'[thr[t].fn][thr[t].key]
                           = fetches[thr[t].fn][thr[t].key] + 1]_vars

\* The second request for a key, sent when the entry stored by the first had
\* expired, has failed, and the expired entry is still there.
C28_Witness ==
    \E t \in Callers : \E fn \in Caches :
        LET cached == CacheOf(fn)[thr[t].key] IN
        /\ thr[t].fn = fn
        /\ thr[t].pc = "raised" /\ thr[t].called = 2
        /\ thr[t].exc \in WeatherNetworkFailures \cup FestivalNetworkFailures
        /\ cached # None
        /\ cached.payload.id = 1
        /\ thr[t].now - cached.ts >= TTLOf(fn)

-----------------------------------------------------------------------------
(* Properties of gather_context (SpecGather) *)

TaskOf == [weather |-> WeatherTask, festival |-> FestivalTask,
           eventbrite |-> EventbriteTask]

DataField == [weather |-> "weather", festival |-> "festival_events",
              eventbrite |-> "eventbrite_events"]

ErrorField == [weather |-> "weather_error", festival |-> "festival_error",
               eventbrite |-> "eventbrite_error"]

\* The null/empty value of a provider's field.
EmptyField(p, resolved_date) ==
    CASE p = "weather" -> None
      [] p = "festival" -> DefaultFestivalEvents(resolved_date)
      [] p = "eventbrite" -> EmptyList

\* C5: in every bundle gather_context returns, each provider whose call failed
\* has its field null/empty and an error field holding a non-empty string,
\* and each provider whose call succeeded has exactly what its call produced.
C5_FailedProviderHasEmptyFieldAndError ==
    req.pc = "returned" =>
        \A p \in Providers :
            LET task == thr[TaskOf[p]] IN
            IF task.pc = "raised"
            THEN /\ req.bundle[DataField[p]] = EmptyField(p, req.date)
                 /\ ErrorField[p] \in DOMAIN req.bundle
                 /\ req.bundle[ErrorField[p]] # None
                 /\ req.bundle[ErrorField[p]].str # ""
            ELSE req.bundle[DataField[p]] = task.payload

\* C6: when the scraper is available gather_context returns a bundle and
\* never raises, whichever of the three provider calls fail and however.
C6_GatherNeverRaisesWhenScraperLoaded ==
    eventbrite_loaded =>
        /\ req.pc # "raised"
        /\ req.exc = None
        /\ req.pc = "returned" =>
              /\ req.bundle # None
              /\ req.bundle.date = isoformat(req.date)

\* Only the weather provider failed, with a timeout, and the bundle is there.
C6_Witness ==
    /\ req.pc = "returned"
    /\ thr[WeatherTask].pc = "raised"
    /\ thr[WeatherTask].exc =
           Exc("WeatherFetchError", "Failed to fetch weather for location: timeout")
    /\ thr[FestivalTask].pc = "returned"
    /\ thr[EventbriteTask].pc = "returned"
    /\ req.bundle.weather = None
    /\ req.bundle.festival_events = thr[FestivalTask].payload

\* C7: when the scraper could not be loaded gather_context raises the
\* configuration error at once: no task is submitted, no provider request is
\* sent, both caches stay as they were and no bundle is returned.
C7_UnavailableScraperRaisesBeforeDispatch ==
    ~eventbrite_loaded =>
        /\ req.pc \in {"idle", "raised"}
        /\ req.pc = "raised" => req.exc = ScraperUnavailable
        /\ req.bundle = None
        /\ \A t \in Threads : thr[t] = IdleThread
        /\ \A k \in WeatherKeys : WEATHER_CACHE[k] = None /\ fetches.weather[k] = 0
        /\ \A k \in FestivalKeys : FESTIVAL_CACHE[k] = None /\ fetches.festival[k] = 0

C7_Witness ==
    /\ ~eventbrite_loaded
    /\ req.pc = "raised"
    /\ req.exc = ScraperUnavailable

\* C8: missing credentials of the scraper are a hard failure: gather_context
\* raises and returns no bundle, instead of recording them in the bundle.
C8_MissingScraperKeyIsHardFailure ==
    (/\ thr[EventbriteTask].pc = "raised"
     /\ thr[EventbriteTask].exc = EventbriteKeyMissing)
    => /\ req.pc # "returned"
       /\ req.bundle = None

\* The key's entry is within its TTL for the task's lookup and was not stored
\* by this very lookup: the lookup found it there.
Warm(t) ==
    LET entry == CacheOf(thr[t].fn)[thr[t].key] IN
    /\ entry # None
    /\ thr[t].now - entry.ts < TTLOf(thr[t].fn)
    /\ entry.payload.id # thr[t].called

PastRead(task) == task.pc \in {"in_flight", "write_wait", "write", "returned", "raised"}

\* C9 as claimed: a gather_context call made while the entries of its keys
\* are within their TTL invokes none of the three external providers.
C9_WarmCallInvokesNoProvider ==
    (/\ req.pc = "returned"
     /\ Warm(WeatherTask)
     /\ Warm(FestivalTask))
    => \A t \in Threads : thr[t].called = 0

\* C9 as amended: the weather and the festival lookup go through the cache
\* layer, each with its own key and TTL, and the scraped-event lookup does
\* not. A lookup that finds its entry within the TTL returns the cached
\* payload and sends no request, and only such a lookup returns without a
\* request; the scraper is entered on every gather_context call.
C9_CachedLookupsOnlyScraperAlways ==
    /\ \A t \in {WeatherTask, FestivalTask} :
           PastRead(thr[t]) =>
               /\ Warm(t) => /\ thr[t].called = 0
                             /\ thr[t].pc = "returned"
                             /\ thr[t].payload = CacheOf(thr[t].fn)[thr[t].key].payload
               /\ (thr[t].pc = "returned" /\ thr[t].called = 0) => Warm(t)
    /\ req.pc \in {"pool", "returned"} =>
           /\ thr[EventbriteTask].fn = "eventbrite"
           /\ thr[EventbriteTask].key = None
           /\ \/ thr[EventbriteTask].called = lookups.gather
              \/ thr[EventbriteTask].exc = EventbriteKeyMissing

\* A second call: both cached lookups were served from entries stored by the
\* first call, and the scraper was called again.
C9_Witness ==
    /\ req.pc = "returned"
    /\ lookups.gather = 2
    /\ Warm(WeatherTask) /\ thr[WeatherTask].called = 0
    /\ Warm(FestivalTask) /\ thr[FestivalTask].called = 0
    /\ thr[EventbriteTask].called = 2

\* A step of task t inside the pool.
TaskStep(t) ==
    \/ LookupStep(t) /\ UNCHANGED insertedAt
    \/ EventbriteDone(t)

\* C10: the three tasks run side by side and all three are joined before the
\* bundle is assembled: a returned bundle means that each task has finished,
\* and inside the pool a task that has not finished can always take its next
\* step, whatever has become of the other two.
C10_BundleOnlyAfterAllThreeFinished ==
    /\ req.pc = "returned" =>
           /\ \A t \in Threads : Finished(thr[t])
           /\ req.bundle.weather = CollectWeather(thr[WeatherTask]).weather
           /\ req.bundle.festival_events =
                  CollectFestival(thr[FestivalTask], DefaultFestivalEvents(req.date))
           /\ req.bundle.eventbrite_events =
                  CollectEventbrite(thr[EventbriteTask]).eventbrite_events
    /\ req.pc = "pool" =>
           \A t \in Threads : ~Finished(thr[t]) => ENABLED TaskStep(t)

\* The festival call failed while the other two were still running, and both
\* of them went on to return their results, which the bundle holds.
C10_Witness ==
    /\ req.pc = "returned"
    /\ thr[FestivalTask].pc = "raised"
    /\ thr[WeatherTask].pc = "returned" /\ thr[WeatherTask].called # 0
    /\ thr[EventbriteTask].pc = "returned"
    /\ req.bundle.weather = thr[WeatherTask].payload
    /\ req.bundle.eventbrite_events = thr[EventbriteTask].payload

-----------------------------------------------------------------------------
(* The generative backend (services/llm.py), the generator outside mock mode
   and the endpoint POST /events/recommendations (main.py). *)

\* _DEFAULT_MODEL
DEFAULT_MODEL == "gpt-4.1-mini"

\* _MODEL_FALLBACKS
MODEL_FALLBACKS == <<"gpt-4.1", "gpt-4o-mini", "gpt-4o">>

\* The value of an environment variable that lists model names: the names
\* _split_models finds in it, in order. None when the variable is unset.
Names(names) == [names |-> names]

\* OPENAI_MODEL and OPENAI_MODEL_FALLBACKS as the process may have them: both
\* unset; a model configured alone; names configured more than once.
Environments ==
    { [OPENAI_MODEL |-> None, OPENAI_MODEL_FALLBACKS |-> None],
      [OPENAI_MODEL |-> Names(<<"gpt-4o">>), OPENAI_MODEL_FALLBACKS |-> None],
      [OPENAI_MODEL |-> Names(<<"gpt-4o", "gpt-4o">>),
       OPENAI_MODEL_FALLBACKS |-> Names(<<"gpt-4.1", "gpt-4o">>)] }

\* Mutant: the list is used as configured.
Dedupe_kept(models) == models

\* "Remove duplicates while preserving order": the first occurrence of each
\* name stays.
Dedupe(models) ==
    LET IsFirst(i) == \A j \in 1 .. i - 1 : models[j] # models[i]
        first == {i \in 1 .. Len(models) : IsFirst(i)}
        Nth(k) == CHOOSE i \in first : Cardinality({j \in first : j <= i}) = k
    IN [k \in 1 .. Cardinality(first) |-> models[Nth(k)]]

\* LLM._build_model_list: the configured model or the default, then the
\* configured fallbacks or the default ones not yet listed, without
\* duplicates.
build_model_list(configured, fallbacks) ==
    LET models == IF configured # None THEN configured.names ELSE <<DEFAULT_MODEL>>
        Unlisted(model) == \A i \in 1 .. Len(models) : models[i] # model
    IN Dedupe(models \o (IF fallbacks # None
                         THEN fallbacks.names
                         ELSE SelectSeq(MODEL_FALLBACKS, Unlisted)))

\* self._model_candidates with neither variable set.
ModelCandidates == build_model_list(None, None)

Models == {ModelCandidates[i] : i \in 1 .. Len(ModelCandidates)}

\* number_events as sent by clients, inside and outside the allowed range.
NumberEvents == {0, 1, 26}

\* response_preferences as sent by clients.
RequestPreferences == {None, Text(<<"Music">>)}

Endpoints == {"recommendations", "stream"}

\* The states of the generation service: no model answers, exactly one of
\* the configured models does, or all do.
UpSets == {{}, Models} \cup {{m} : m \in Models}

\* Mutant: the upper limit is not declared.
ValidNumberEvents_noUpperLimit(number_events) == number_events >= 1

\* GetEventRecommendationsRequest.number_events: Field(..., ge=1, le=25).
ValidNumberEvents(number_events) == number_events >= 1 /\ number_events <= 25

\* The events of a structured result: k events, told apart by their rank.
ResultEvents(k) == [i \in 1 .. k |-> [rank |-> i]]

\* What a model may answer for max_events: the prompt asks for "up to
\* {max_events}" events and the service decides how many it sends.
ModelResults(max_events) == {ResultEvents(k) : k \in 0 .. max_events + 1}

LLMUnavailable ==
    Exc("RuntimeError", "LLM backend is unavailable. Install the required dependencies or run the API with MOCK=1.")

AllModelsFailed ==
    Exc("RuntimeError", "All configured OpenAI models failed. Last error: model call failed")

\* A request arrives. FastAPI builds GetEventRecommendationsRequest from the
\* body before it calls the endpoint function: a body that fails validation
\* is answered with 422 and the function is never entered. The endpoints get
\* their collaborators from Depends: ContextAggregator, which has no
\* gather_context_streaming, and ActivitySuggestionGenerator, whose
\* generate_suggestions takes two arguments. event_stream_generator may also
\* be driven with collaborators that provide what it calls; its worker may
\* call the backend at any time, so which models answer is fixed here. MOCK
\* plays no part in a stream: generate_suggestions as src defines it is not
\* entered (see WorkerFinish).
Receive ==
    /\ api.pc = "idle"
    /\ req.pc = "idle"
    /\ \E endpoint \in Endpoints, number_events \in NumberEvents,
          response_preferences \in RequestPreferences, mock_mode \in BOOLEAN,
          up \in UpSets, streams \in BOOLEAN, takes_context \in BOOLEAN :
         /\ endpoint = "recommendations" => ~streams /\ ~takes_context /\ up = {}
         /\ endpoint = "stream" => ~mock_mode
         /\ api' = IF ValidNumberEvents(number_events)
                   THEN [IdleApi EXCEPT !.pc = "entered",
                                        !.endpoint = endpoint,
                                        !.number_events = number_events,
                                        !.response_preferences = response_preferences,
                                        !.mock_mode = mock_mode,
                                        !.up = up,
                                        !.streams = streams,
                                        !.takes_context = takes_context]
                   ELSE [IdleApi EXCEPT !.pc = "rejected",
                                        !.endpoint = endpoint,
                                        !.number_events = number_events,
                                        !.response = [status |-> 422]]
    /\ UNCHANGED <<MOCK_EVENTS, mock>>
    /\ UNCHANGED aggregatorVars

\* get_event_recommendations calls generate_suggestions with two arguments.
\* In mock mode the deterministic backend answers. Otherwise the generator
\* needs the LLM class (None when its import failed) and goes on to gather
\* the context.
GenerateEnter ==
    /\ api.pc = "entered"
    /\ api.endpoint = "recommendations"
    /\ IF api.mock_mode
       THEN /\ api' = [api EXCEPT
                   !.pc = "returned",
                   !.events = MockSuggestions(MOCK_EVENTS, api.number_events,
                                              api.response_preferences)]
            /\ MOCK_EVENTS' = PoolAfterCall(MOCK_EVENTS, api.number_events,
                                            api.response_preferences)
       ELSE /\ lookups.gather < MaxGathers
            /\ \E llm_imported \in BOOLEAN, env \in Environments :
                 api' = IF llm_imported
                        THEN [api EXCEPT
                                !.pc = "gather",
                                !.model_candidates =
                                    build_model_list(env.OPENAI_MODEL,
                                                     env.OPENAI_MODEL_FALLBACKS),
                                !.gathers_before = lookups.gather]
                        ELSE [api EXCEPT !.pc = "raised", !.exc = LLMUnavailable]
            /\ UNCHANGED MOCK_EVENTS
    /\ UNCHANGED mock
    /\ UNCHANGED aggregatorVars

\* A step of the gather_context call the generator makes.
GenerateGather ==
    /\ api.pc = "gather"
    /\ \/ GatherCall(api.response_preferences) /\ req'.date = Today
       \/ GatherSubmit
       \/ \E t \in Threads : TaskStep(t)
       \/ GatherJoin

\* gather_context has returned the bundle, or raised: the exception leaves
\* generate_suggestions. With the bundle the backend is called next: which
\* models answer is fixed from here on.
GenerateGathered ==
    /\ api.pc = "gather"
    /\ req.pc \in {"returned", "raised"}
    /\ \E up \in UpSets :
         api' = IF req.pc = "returned"
                THEN [api EXCEPT !.pc = "llm", !.context = req.bundle, !.up = up]
                ELSE [api EXCEPT !.pc = "raised", !.exc = req.exc]
    /\ req' = IdleRequest
    /\ thr' = [t \in Threads |-> IdleThread]
    /\ UNCHANGED <<clock, WEATHER_CACHE, FESTIVAL_CACHE, WEATHER_CACHE_LOCK,
                   FESTIVAL_CACHE_LOCK, eventbrite_loaded, lookups, fetches,
                   insertedAt>>
    /\ UNCHANGED <<MOCK_EVENTS, mock>>

\* `return list(result.events)`
ReturnedEvents(result, max_events) == result

\* Mutant: max_events is left at its default.
BackendCall_default(context, number_events) == [context |-> context, max_events |-> 8]

\* llm.generate_event_suggestions(context=context, max_events=number_events)
BackendCall(context, number_events) == [context |-> context, max_events |-> number_events]

\* One turn of the loop of generate_event_suggestions: the next model of the
\* list is invoked; its result is returned, or its failure is kept as
\* last_error and the loop goes on; after the last model the call raises.
\* The first turn is the call itself. generate_suggestions returns what the
\* call returned.
LLMAttempt ==
    /\ api.pc = "llm"
    /\ LET model_name == api.model_candidates[Len(api.attempts) + 1]
           attempts == Append(api.attempts, model_name)
           llm_calls == IF api.attempts = <<>>
                        THEN Append(api.llm_calls,
                                    BackendCall(api.context, api.number_events))
                        ELSE api.llm_calls
       IN IF model_name \in api.up
          THEN \E result \in ModelResults(api.number_events) :
                 api' = [api EXCEPT
                           !.pc = "returned",
                           !.attempts = attempts,
                           !.llm_calls = llm_calls,
                           !.ranked_events = ReturnedEvents(result, api.number_events),
                           !.events = ReturnedEvents(result, api.number_events)]
          ELSE api' = IF Len(attempts) < Len(api.model_candidates)
                      THEN [api EXCEPT !.attempts = attempts, !.llm_calls = llm_calls]
                      ELSE [api EXCEPT !.pc = "raised", !.attempts = attempts,
                                       !.llm_calls = llm_calls,
                                       !.exc = AllModelsFailed]
    /\ UNCHANGED <<MOCK_EVENTS, mock>>
    /\ UNCHANGED aggregatorVars

\* get_event_recommendations returns the response with the events, or the
\* exception leaves it and FastAPI answers 500.
Respond ==
    /\ api.endpoint = "recommendations"
    /\ api.pc \in {"returned", "raised"}
    /\ api' = IF api.pc = "returned"
              THEN [api EXCEPT !.pc = "responded",
                               !.response = [status |-> 200, events |-> api.events]]
              ELSE [api EXCEPT !.pc = "failed", !.response = [status |-> 500]]
    /\ UNCHANGED <<MOCK_EVENTS, mock>>
    /\ UNCHANGED aggregatorVars

\* The request is over; a worker still running is left to finish.
ApiDone ==
    /\ api.pc \in {"rejected", "responded", "failed", "closed", "disconnected"}
    /\ api.worker # "running"
    /\ api' = IdleApi
    /\ UNCHANGED <<MOCK_EVENTS, mock>>
    /\ UNCHANGED aggregatorVars

-----------------------------------------------------------------------------
(* The streaming coordinator: event_stream_generator (main.py). Each yield
   hands one event to the client and is one step. *)

\* send_event("progress", {"status": ..., "message": ..., "progress": ...})
Progress(status, progress) ==
    [kind |-> "progress", data |-> [status |-> status, progress |-> progress]]

\* Mutant: two steps of the ladder change places.
progress_steps_swapped == <<65, 75, 70, 80, 85, 90, 95>>

\* progress_steps: the percent of each step of the ladder, in order.
progress_steps == <<65, 70, 75, 80, 85, 90, 95>>

\* The bundle a streaming aggregator hands over with its last event.
GatheredContext == [date |-> isoformat(Today), city |-> "Edinburgh"]

\* What gather_context_streaming yields, for an aggregator that has it: an
\* event per sub-step, the last of them carrying the bundle as "_context".
AggregatorEvents ==
    << [status |-> "gathering_context", step |-> 1],
       ("status" :> "context_ready" @@ "step" :> 2 @@ "_context" :> GatheredContext) >>

AggregatorFailure == Exc("RuntimeError", "Eventbrite scraper is unavailable.")

\* `aggregator.gather_context_streaming` on a ContextAggregator.
NoStreamingMethod ==
    Exc("AttributeError",
        "'ContextAggregator' object has no attribute 'gather_context_streaming'")

\* generate_suggestions(self, number_events, response_preferences) called
\* with three positional arguments.
TooManyArguments ==
    Exc("TypeError",
        "generate_suggestions() takes 3 positional arguments but 4 were given")

\* Mutant: the event is sent as the aggregator yielded it.
WithoutContext_kept(progress_event) == progress_event

\* progress_event.pop("_context")
WithoutContext(progress_event) ==
    [f \in DOMAIN progress_event \ {"_context"} |-> progress_event[f]]

\* An object the serialization loop cannot turn into a dict.
Unserialisable == [rank |-> 1, unserialisable |-> TRUE]

\* What a generator that takes the context returns when a model answers.
WorkerResults(max_events) == ModelResults(max_events) \cup {<<Unserialisable>>}

CanSerialize(event) == "unserialisable" \notin DOMAIN event

\* model_dump() of the event with its location turned into [x, y].
SerializedEvent(event) == [rank |-> event.rank, location |-> <<"x", "y">>]

\* f"Error generating recommendations: {str(e)}"
ErrorMessage(exc) == [prefix |-> "Error generating recommendations: ", detail |-> exc.msg]

Yield(event) == Append(api.sent, event)

\* Mutant: no except clause; the exception leaves the generator.
Raise_uncaught(exc) == [api EXCEPT !.pc = "crashed", !.exc = exc]

\* An exception raised inside `try:` is taken to the `except Exception` clause.
Raise(exc) == [api EXCEPT !.pc = "except", !.exc = exc]

\* Mutant: the generator goes on to the except clause after a terminal event.
AfterTerminal_again == "except"

\* After the terminal event the generator returns: the stream is closed.
AfterTerminal == "closed"

\* Mutant: no flush loop.
FlushNeeded_never(step_index) == FALSE

\* `while step_index < len(progress_steps):`
FlushNeeded(step_index) == step_index < Len(progress_steps)

\* yield progress "started", 0.
StreamStarted ==
    /\ api.pc = "entered"
    /\ api.endpoint = "stream"
    /\ api' = [api EXCEPT !.pc = "gathering",
                          !.sent = Yield(Progress("started", 0))]
    /\ UNCHANGED <<MOCK_EVENTS, mock>>
    /\ UNCHANGED aggregatorVars

\* One turn of `async for progress_event in aggregator.gather_context_streaming(...)`:
\* the attribute lookup fails on an aggregator without the method; otherwise
\* the aggregator yields its next event, which is sent on without "_context",
\* or raises, or is exhausted and the "generating" event (60) is sent.
StreamGathering ==
    /\ api.pc = "gathering"
    /\ IF ~api.streams
       THEN api' = Raise(NoStreamingMethod)
       ELSE LET i == Len(api.sent) IN
            IF i <= Len(AggregatorEvents)
            THEN \/ LET progress_event == AggregatorEvents[i] IN
                    api' = [api EXCEPT
                              !.context = IF "_context" \in DOMAIN progress_event
                                          THEN progress_event["_context"]
                                          ELSE @,
                              !.sent = Yield([kind |-> "progress",
                                              data |-> WithoutContext(progress_event)])]
                 \/ api' = Raise(AggregatorFailure)
            ELSE api' = [api EXCEPT !.pc = "submit",
                                    !.sent = Yield(Progress("generating", 60))]
    /\ UNCHANGED <<MOCK_EVENTS, mock>>
    /\ UNCHANGED aggregatorVars

\* executor.submit(generator.generate_suggestions, number_events,
\* response_preferences, gathered_context); step_index = 0.
StartWorker ==
    /\ api.pc = "submit"
    /\ api' = [api EXCEPT
                 !.pc = "poll",
                 !.worker = "running",
                 !.submitted = [number_events |-> api.number_events,
                                response_preferences |-> api.response_preferences,
                                gathered_context |-> api.context],
                 !.step_index = 0]
    /\ UNCHANGED <<MOCK_EVENTS, mock>>
    /\ UNCHANGED aggregatorVars

\* What generate_suggestions does in the worker for a generator that takes
\* the context as its third argument: it returns the events of the first
\* model that answers, or raises when every model fails.
GenerateWithContext(number_events, up) ==
    IF up = {}
    THEN {[worker |-> "raised", worker_exc |-> AllModelsFailed, events |-> <<>>]}
    ELSE {[worker |-> "returned", worker_exc |-> None, events |-> result] :
            result \in WorkerResults(number_events)}

\* The worker thread finishes. Calling generate_suggestions as src defines
\* it with three positional arguments raises TypeError at once; the future
\* keeps the exception.
WorkerFinish ==
    /\ api.worker = "running"
    /\ \E outcome \in IF api.takes_context
                      THEN GenerateWithContext(api.number_events, api.up)
                      ELSE {[worker |-> "raised", worker_exc |-> TooManyArguments,
                             events |-> <<>>]} :
         api' = [api EXCEPT !.worker = outcome.worker,
                            !.worker_exc = outcome.worker_exc,
                            !.events = outcome.events]
    /\ UNCHANGED <<MOCK_EVENTS, mock>>
    /\ UNCHANGED aggregatorVars

\* `while not future.done():` the loop is entered, or left for the flush.
PollCheck ==
    /\ api.pc = "poll"
    /\ api' = [api EXCEPT !.pc = IF api.worker = "running" THEN "sleep" ELSE "flush"]
    /\ UNCHANGED <<MOCK_EVENTS, mock>>
    /\ UNCHANGED aggregatorVars

\* After asyncio.sleep(0.2): if steps are left and update_interval has
\* passed since the last update, the next step is sent.
PollStep ==
    /\ api.pc = "sleep"
    /\ \E interval_passed \in BOOLEAN :
         api' = IF api.step_index < Len(progress_steps) /\ interval_passed
                THEN [api EXCEPT
                        !.pc = "poll",
                        !.sent = Yield(Progress("generating",
                                                progress_steps[api.step_index + 1])),
                        !.step_index = @ + 1]
                ELSE [api EXCEPT !.pc = "poll"]
    /\ UNCHANGED <<MOCK_EVENTS, mock>>
    /\ UNCHANGED aggregatorVars

\* `while step_index < len(progress_steps):` the steps not sent yet.
FlushStep ==
    /\ api.pc = "flush"
    /\ FlushNeeded(api.step_index)
    /\ api' = [api EXCEPT
                 !.sent = Yield(Progress("generating", progress_steps[api.step_index + 1])),
                 !.step_index = @ + 1]
    /\ UNCHANGED <<MOCK_EVENTS, mock>>
    /\ UNCHANGED aggregatorVars

\* events = future.result(): the worker's exception is raised here, or the
\* "Preparing results..." event (96) is sent.
StreamResult ==
    /\ api.pc = "flush"
    /\ ~FlushNeeded(api.step_index)
    /\ api' = IF api.worker = "raised"
              THEN Raise(api.worker_exc)
              ELSE [api EXCEPT !.pc = "serialize",
                               !.sent = Yield(Progress("generating", 96))]
    /\ UNCHANGED <<MOCK_EVENTS, mock>>
    /\ UNCHANGED aggregatorVars

\* The serialization loop, which re-raises what an event raises, and the
\* "Packaging recommendations..." event (98).
StreamSerialize ==
    /\ api.pc = "serialize"
    /\ api' = IF \A i \in 1 .. Len(api.events) : CanSerialize(api.events[i])
              THEN [api EXCEPT
                      !.pc = "packaged",
                      !.serialized_events =
                          [i \in 1 .. Len(api.events) |-> SerializedEvent(api.events[i])],
                      !.sent = Yield(Progress("generating", 98))]
              ELSE Raise(Exc("TypeError", "object is not iterable"))
    /\ UNCHANGED <<MOCK_EVENTS, mock>>
    /\ UNCHANGED aggregatorVars

\* yield the "complete" event with the serialized events; the generator ends.
StreamComplete ==
    /\ api.pc = "packaged"
    /\ api' = [api EXCEPT
                 !.pc = AfterTerminal,
                 !.sent = Yield([kind |-> "complete",
                                 data |-> [status |-> "complete", progress |-> 100,
                                           events |-> api.serialized_events]])]
    /\ UNCHANGED <<MOCK_EVENTS, mock>>
    /\ UNCHANGED aggregatorVars

\* `except Exception as e:` yield the "error" event; the generator ends.
StreamError ==
    /\ api.pc = "except"
    /\ api' = [api EXCEPT
                 !.pc = AfterTerminal,
                 !.sent = Yield([kind |-> "error",
                                 data |-> [status |-> "error",
                                           message |-> ErrorMessage(api.exc)]])]
    /\ UNCHANGED <<MOCK_EVENTS, mock>>
    /\ UNCHANGED aggregatorVars

\* Where the generator is suspended in a yield or an await, inside the try.
Suspended ==
    api.pc \in {"gathering", "submit", "poll", "sleep", "flush", "serialize", "packaged"}

\* The client goes away: the response is closed and the generator is closed
\* where it is suspended (GeneratorExit / CancelledError are not Exceptions:
\* the except clause does not run). The worker is not cancelled.
Disconnect ==
    /\ Suspended
    /\ api' = [api EXCEPT !.pc = "disconnected"]
    /\ UNCHANGED <<MOCK_EVENTS, mock>>
    /\ UNCHANGED aggregatorVars

\* A step of the coordinator.
StreamStep ==
    \/ StreamStarted
    \/ StreamGathering
    \/ StartWorker
    \/ PollCheck
    \/ PollStep
    \/ FlushStep
    \/ StreamResult
    \/ StreamSerialize
    \/ StreamComplete
    \/ StreamError

NextApi ==
    \/ Receive
    \/ GenerateEnter
    \/ GenerateGather
    \/ GenerateGathered
    \/ LLMAttempt
    \/ Respond
    \/ StreamStarted
    \/ StreamGathering
    \/ StartWorker
    \/ WorkerFinish
    \/ PollCheck
    \/ PollStep
    \/ FlushStep
    \/ StreamResult
    \/ StreamSerialize
    \/ StreamComplete
    \/ StreamError
    \/ Disconnect
    \/ ApiDone

SpecApi == Init /\ [][NextApi]_vars

\* The event loop runs the coordinator whenever it can take a step, and the
\* worker thread, once started, finishes (its calls return or raise).
SpecApiFair ==
    /\ SpecApi
    /\ WF_vars(StreamStep)
    /\ WF_vars(WorkerFinish)

-----------------------------------------------------------------------------
(* Properties of the deterministic backend (SpecMock) *)

\* The candidates of the pool, by id.
PoolIds == {MockPool[i].id : i \in 1 .. Len(MockPool)}

\* C17: the deterministic backend returns at most min(count, size of the
\* pool) events, each a candidate of the pool and none twice (no padding),
\* and every event_score lies in [0, 10] after the re-scoring.
C17_MockResultBoundedAndScored ==
    mock.last # None =>
        LET result == mock.last.result IN
        /\ Len(result) <= Min(mock.last.number_events, Len(MockPool))
        /\ \A i \in 1 .. Len(result) :
               /\ result[i].id \in PoolIds
               /\ result[i].event_score >= 0
               /\ result[i].event_score <= 100
               /\ \A j \in 1 .. Len(result) : result[i].id = result[j].id => i = j

\* More events asked for than the pool has, with a preference that matches:
\* the whole pool comes back re-scored, the match first.
C17_Witness ==
    /\ mock.last # None
    /\ mock.last.number_events > Len(MockPool)
    /\ tokenize_preferences(mock.last.response_preferences) = <<"music">>
    /\ Len(mock.last.result) = Len(MockPool)
    /\ mock.last.result[1] = [id |-> 2, event_score |-> 96]

BestOfWholePool(pool, number_events, tokens) ==
    SubSeq(SortByScoreDesc(Rescore(pool, tokens)), 1,
           Min(Len(pool), Max(0, number_events)))

\* C20: with preference tokens, the result of the deterministic backend is
\* the `count` best-scored candidates of the entire pool: the pool is scored
\* and sorted first and truncated to `count` last.
C20_ResultIsBestOfWholePool ==
    (/\ mock.last # None
     /\ tokenize_preferences(mock.last.response_preferences) # <<>>)
    => mock.last.result =
           BestOfWholePool(MOCK_EVENTS, mock.last.number_events,
                           tokenize_preferences(mock.last.response_preferences))

\* _match_ratio(...) <= 0 for every candidate of the pool.
MatchesNothing(tokens) == \A id \in PoolIds : Matches(id, tokens) = 0

\* The baseline event_score of a candidate of the pool.
BaselineOf(id) == (CHOOSE e \in {MockPool[i] : i \in 1 .. Len(MockPool)} : e.id = id).event_score

\* C21: with preference tokens that match no candidate the result is not
\* empty for count >= 1, holds the candidates a call without preferences
\* returns, and is in descending order of baseline score.
C21_NoMatchKeepsBaselineRanking ==
    (/\ mock.last # None
     /\ tokenize_preferences(mock.last.response_preferences) # <<>>
     /\ MatchesNothing(tokenize_preferences(mock.last.response_preferences)))
    => LET result == mock.last.result
           plain == MockSuggestions(MockPool, mock.last.number_events, None)
       IN /\ mock.last.number_events >= 1 => result # <<>>
          /\ Len(result) = Len(plain)
          /\ {result[i].id : i \in 1 .. Len(result)} = {plain[i].id : i \in 1 .. Len(plain)}
          /\ \A i, j \in 1 .. Len(result) :
                 i < j => BaselineOf(result[i].id) >= BaselineOf(result[j].id)

\* The whole pool re-scored with a token nothing matches: candidates 3 (8.1)
\* and 7 (8.0) both come to 4.4 and keep their order.
C21_Witness ==
    /\ mock.last # None
    /\ tokenize_preferences(mock.last.response_preferences) = <<"opera">>
    /\ Len(mock.last.result) = Len(MockPool)
    /\ mock.last.result[1].id = 1
    /\ \E i \in 1 .. Len(MockPool) - 1 :
          /\ mock.last.result[i] = [id |-> 3, event_score |-> 44]
          /\ mock.last.result[i + 1] = [id |-> 7, event_score |-> 44]

\* The candidate whose text contains a token is ranked first.
MatchedRankedFirst == mock.scored.events[1].matches > 0

\* C26 as stated: a candidate containing at least one token is ranked above
\* a candidate containing none, for every number of tokens and every pair
\* of baseline scores.
C26_MatchedAboveUnmatched ==
    mock.scored # None => MatchedRankedFirst

\* C26 amended: a candidate containing at least two thirds of the tokens (so
\* every matching candidate, for a single token) is ranked above a candidate
\* containing none, for every pair of baseline scores.
C26_MostlyMatchedAboveUnmatched ==
    (/\ mock.scored # None
     /\ \E e \in {mock.scored.events[1], mock.scored.events[2]} :
           3 * e.matches >= 2 * mock.scored.total)
    => MatchedRankedFirst

\* The worst case: the matching candidate has baseline 0 and comes second in
\* the list, the other has baseline 10.
C26_Witness ==
    /\ mock.scored # None
    /\ mock.scored.baselines = <<0, 100>>
    /\ mock.scored.total = 3
    /\ mock.scored.events = << [id |-> 1, matches |-> 2, event_score |-> 54],
                               [id |-> 2, matches |-> 0, event_score |-> 50] >>

-----------------------------------------------------------------------------
(* Properties of the endpoints (SpecApi, SpecApiFair). *)

Terminal(event) == event.kind \in {"complete", "error"}

Last(seq) == seq[Len(seq)]

\* The stream of the current request ended with a terminal event.
Ended == api.sent # <<>> /\ Terminal(Last(api.sent))

\* C11: in every stream a terminal event (complete or error) is the last
\* event: there is at most one, nothing follows it, and complete and error
\* never both occur.
C11_TerminalEventIsLast ==
    \A i \in 1 .. Len(api.sent) : Terminal(api.sent[i]) => i = Len(api.sent)

C11_Witness ==
    /\ api.endpoint = "stream"
    /\ api.pc = "closed"
    /\ ~api.streams
    /\ Len(api.sent) = 2
    /\ Last(api.sent).kind = "error"

\* C12: a stream that was started ends with a complete or an error event,
\* unless the client goes away first.
C12_StreamEnds ==
    (api.endpoint = "stream" /\ api.pc = "entered")
        ~> (Ended \/ api.pc = "disconnected")

\* Context gathering raised and the stream ended with the error event.
C12_Witness ==
    /\ api.pc = "closed"
    /\ Ended
    /\ Last(api.sent).data.message = ErrorMessage(NoStreamingMethod)

\* C13: a streaming request whose providers and models all succeed ends with
\* a complete event carrying one serialized entry per event of the
\* generator, in order. (The generator is the one main.py is wired with.)
C13_SuccessfulStreamCompletes ==
    (/\ api.endpoint = "stream"
     /\ api.pc = "closed"
     /\ ~api.takes_context
     /\ api.up = Models
     /\ api.exc # AggregatorFailure)
    => /\ Last(api.sent).kind = "complete"
       /\ Len(Last(api.sent).data.events) = Len(api.events)

\* C14: when every model fails, the stream carries exactly one error event,
\* whose message describes that failure, and no complete event; the
\* non-streaming endpoint raises the failure.
C14_ModelFailureIsReported ==
    /\ (/\ api.endpoint = "stream"
        /\ api.pc = "closed"
        /\ api.up = {}
        /\ api.exc # AggregatorFailure)
       => /\ Cardinality({i \in 1 .. Len(api.sent) : api.sent[i].kind = "error"}) = 1
          /\ \A i \in 1 .. Len(api.sent) : api.sent[i].kind # "complete"
          /\ Last(api.sent).data.message = ErrorMessage(AllModelsFailed)
    /\ (/\ api.endpoint = "recommendations"
        /\ api.model_candidates # <<>>
        /\ api.attempts = api.model_candidates
        /\ Last(api.model_candidates) \notin api.up)
       => /\ api.pc \in {"raised", "failed"}
          /\ api.exc = AllModelsFailed
          /\ api.events = <<>>

\* The percents of the ladder steps sent so far, in the order sent.
LadderSent ==
    LET is_step(event) ==
            /\ event.kind = "progress"
            /\ "progress" \in DOMAIN event.data
            /\ \E k \in 1 .. Len(progress_steps) : event.data.progress = progress_steps[k]
        steps == SelectSeq(api.sent, is_step)
    IN  [k \in 1 .. Len(steps) |-> steps[k].data.progress]

\* C15: the ladder steps sent are always the first steps of the ladder, in
\* order, each once; and when the worker was started and the terminal event
\* has been sent, all seven have been sent before it.
C15_LadderIsComplete ==
    /\ Len(LadderSent) <= Len(progress_steps)
    /\ LadderSent = SubSeq(progress_steps, 1, Len(LadderSent))
    /\ (api.worker # "none" /\ Ended) => LadderSent = progress_steps

\* A stream whose worker finished before every step was sent by the poll
\* loop: the flush loop sent the rest.
C15_Witness ==
    /\ api.worker # "none"
    /\ Ended
    /\ LadderSent = progress_steps

OutOfRange(number_events) == number_events < 1 \/ number_events > 25

\* C16: while a request with number_events outside [1,25] is being handled,
\* on either endpoint, no fetch is made, no cache entry changes, no worker is
\* started and no stream event is sent.
C16_RejectedBeforeAnyWork ==
    [][ (api'.pc # "idle" /\ OutOfRange(api'.number_events))
          => /\ UNCHANGED aggregatorVars
             /\ api'.pc = "rejected"
             /\ api'.worker = "none"
             /\ api'.sent = <<>>
             /\ api'.response = [status |-> 422] ]_vars

C16_Witness ==
    /\ api.pc = "rejected"
    /\ api.endpoint = "stream"
    /\ api.number_events > 25
    /\ lookups.gather > 0

\* C18: the list the generative backend returns has at most number_events
\* elements.
C18_ReturnsAtMostCount ==
    (/\ api.endpoint = "recommendations"
     /\ ~api.mock_mode
     /\ api.pc = "returned")
    => Len(api.events) <= api.number_events

\* A call of generate_suggestions outside mock mode that got past the import
\* check.
Generative ==
    api.endpoint = "recommendations" /\ ~api.mock_mode /\ api.model_candidates # <<>>

\* C22: in a generate_event_suggestions call the models are tried in the
\* order of the list, none twice; every model tried before the last one
\* failed; the call returns as soon as a model succeeds; and it raises
\* exactly when every model of the list has failed.
C22_ModelsTriedInOrder ==
    Generative =>
        /\ api.attempts = SubSeq(api.model_candidates, 1, Len(api.attempts))
        /\ \A i, j \in 1 .. Len(api.attempts) : api.attempts[i] = api.attempts[j] => i = j
        /\ \A i \in 1 .. Len(api.attempts) - 1 : api.attempts[i] \notin api.up
        /\ api.pc \in {"returned", "responded"}
             => api.attempts # <<>> /\ Last(api.attempts) \in api.up
        /\ api.exc = AllModelsFailed
             <=> /\ api.attempts = api.model_candidates
                 /\ \A i \in 1 .. Len(api.attempts) : api.attempts[i] \notin api.up

\* Names configured twice: the first model failed and the second, tried
\* next and last, answered.
C22_Witness ==
    /\ Generative
    /\ api.pc = "returned"
    /\ api.model_candidates = <<"gpt-4o", "gpt-4.1">>
    /\ api.attempts = api.model_candidates

\* C23: outside mock mode generate_suggestions calls gather_context once,
\* with the caller's preferences, then calls the backend once, with the
\* bundle gathered and max_events = number_events, and returns the backend's
\* events as they are; the backend is not called before the bundle is there.
C23_GatherOnceThenBackendOnce ==
    Generative =>
        /\ (api.pc = "gather" /\ req.pc # "idle")
             => req.preferences = api.response_preferences
        /\ api.llm_calls # <<>>
             => /\ api.pc \notin {"entered", "gather"}
                /\ req.pc = "idle"
                /\ lookups.gather = api.gathers_before + 1
                /\ api.context # None
                /\ api.context.preferences_raw = raw_preferences(api.response_preferences)
                /\ api.llm_calls = << [context |-> api.context,
                                       max_events |-> api.number_events] >>
        /\ api.pc \in {"returned", "responded"}
             => /\ Len(api.llm_calls) = 1
                /\ api.events = api.ranked_events

C23_Witness ==
    /\ Generative
    /\ api.pc = "returned"
    /\ api.response_preferences = Text(<<"Music">>)
    /\ api.context.preference_keywords = <<"music">>
    /\ api.gathers_before > 0
    /\ Len(api.attempts) > 1
    /\ api.events # <<>>

\* C29: no event sent to the client has the "_context" field, and the bundle
\* the aggregator's last event carried is the one the worker was submitted
\* with.
C29_ContextStaysInternal ==
    /\ \A i \in 1 .. Len(api.sent) : "_context" \notin DOMAIN api.sent[i].data
    /\ api.worker # "none"
         => api.submitted.gathered_context = Last(AggregatorEvents)["_context"]

\* The aggregator's last event has been sent on and the worker started.
C29_Witness ==
    /\ api.worker = "running"
    /\ Len(api.sent) > Len(AggregatorEvents)
    /\ api.sent[Len(AggregatorEvents) + 1].data.status = "context_ready"

\* The percents of the events the coordinator originates, in the order sent:
\* the aggregator's events, passed on as they are, carry none.
PercentsSent ==
    LET has_percent(event) == "progress" \in DOMAIN event.data
        own == SelectSeq(api.sent, has_percent)
    IN  [k \in 1 .. Len(own) |-> own[k].data.progress]

\* C30: the percents of the coordinator's own events increase strictly; 100
\* is carried by the complete event only; 96 and 98 are sent only after the
\* worker returned its events.
C30_PercentsIncrease ==
    /\ \A j, k \in 1 .. Len(PercentsSent) : j < k => PercentsSent[j] < PercentsSent[k]
    /\ \A i \in 1 .. Len(api.sent) :
         LET event == api.sent[i] IN
         "progress" \in DOMAIN event.data =>
            /\ event.data.progress = 100 <=> event.kind = "complete"
            /\ event.data.progress \in {96, 98} => api.worker = "returned"

C30_Witness ==
    /\ api.pc = "closed"
    /\ Last(api.sent).kind = "complete"
    /\ PercentsSent = <<0, 60>> \o progress_steps \o <<96, 98, 100>>

-----------------------------------------------------------------------------
(* Properties of the bundle (SpecGather, SpecPreferences). *)

\* C24: in every bundle returned, the festival snapshot carries the bundle's
\* date, and so does the weather snapshot unless it is null, whether the
\* snapshot was fetched, served from the cache or defaulted.
C24_SnapshotsCarryBundleDate ==
    req.pc = "returned" =>
        /\ req.bundle.date = isoformat(req.date)
        /\ req.bundle.festival_events.date = req.bundle.date
        /\ req.bundle.weather # None => req.bundle.weather.date = req.bundle.date

\* The weather snapshot was served from the cache, where an earlier request
\* stored it, and the festival snapshot is the default kept after a failure.
C24_Witness ==
    /\ req.pc = "returned"
    /\ lookups.gather > 1
    /\ thr[WeatherTask].pc = "returned" /\ thr[WeatherTask].called = 0
    /\ req.bundle.weather = thr[WeatherTask].payload
    /\ thr[FestivalTask].pc = "raised"
    /\ req.bundle.festival_events = DefaultFestivalEvents(req.date)

\* response_preferences as gather_context got it ("" for None).
GivenWords == IF req.preferences = None THEN <<>> ELSE req.preferences.words

\* C25: in the bundle, preferences and preferences_normalized are the
\* trimmed, lowercased input, preferences_raw the trimmed input,
\* has_preferences says whether the trimmed input is non-empty, and
\* preference_keywords are the lowercased tokens longer than 2 characters,
\* none twice.
C25_PreferencesNormalized ==
    req.pc = "returned" =>
        LET raw == req.bundle.preferences_raw.words
            keywords == req.bundle.preference_keywords
            solid == {i \in 1 .. Len(GivenWords) : GivenWords[i] # " "}
        IN /\ req.bundle.preferences = req.bundle.preferences_normalized
           /\ req.bundle.preferences.words = [i \in 1 .. Len(raw) |-> lower(raw[i])]
           /\ raw # <<>> => raw[1] # " " /\ raw[Len(raw)] # " "
           /\ \E first \in 1 .. Len(GivenWords) + 1 :
                 /\ raw = SubSeq(GivenWords, first, first + Len(raw) - 1)
                 /\ \A i \in solid : first <= i /\ i < first + Len(raw)
           /\ req.bundle.has_preferences <=> solid # {}
           /\ {keywords[k] : k \in 1 .. Len(keywords)}
                 = {lower(GivenWords[i]) : i \in {j \in solid : WordLen(GivenWords[j]) > 2}}
           /\ \A j, k \in 1 .. Len(keywords) : keywords[j] = keywords[k] => j = k

====
